---------------------------- MODULE Spec2Model ----------------------------
(***************************************************************************)
(* Agenda telefonica: the REST backend (Express handlers over one SQLite   *)
(* connection) of src/public/app.js and the schema of src/database.js.     *)
(*                                                                         *)
(* The store is the two tables Contato and Telefone plus the AUTOINCREMENT *)
(* counter of Contato; the audit log is the file logs/exclusoes.txt.  Each *)
(* SQL statement is one atomic step (one connection, SQLite serialises the *)
(* statements), and the callback of a statement runs in the same step as   *)
(* the statement, because a callback only issues the next statement or the *)
(* response.  The synchronous prefix of a handler (validation) runs in the *)
(* step of the handler's first statement.  Requests that wait for further  *)
(* statements sit in pedidos (the requests in flight).                     *)
(*                                                                         *)
(* JavaScript strings are sequences of one-character strings, so that      *)
(* trim, substring, replace, split and LIKE are computed, not assumed.     *)
(***************************************************************************)
EXTENDS Integers, Sequences, FiniteSets, TLC

(***************************************************************************)
(* Bounds of the model.                                                    *)
(***************************************************************************)
MaxId == 1          \* largest contact id, concurrent specification
MaxInFlight == 2    \* write requests in flight at once, concurrent specification
MaxFaults == 1      \* storage / file-system failures injected
MaxPedidos == 2     \* requests sent, concurrent specification
MaxIdVal == 1       \* largest contact id, validation specification
MaxPedidosVal == 2  \* requests sent, validation specification
MaxIdSeq == 2       \* largest contact id, sequential specification
MaxPedidosSeq == 2  \* requests sent, sequential specification
MaxIdIds == 2       \* largest contact id, specification of the identifiers
MaxPedidosIds == 3  \* requests sent, specification of the identifiers
MaxIdPagina == 2    \* largest contact id the page handles
MaxIdCriar == 3     \* largest contact id, specification of the creates of the page
MaxPedidosCriar == 1  \* requests of the other client, same specification
MaxConsultas == 4   \* fetches of the list and of searches the page issues
MaxIdDois == 3      \* largest contact id, specification with two contacts
MaxPedidosDois == 2 \* requests sent, specification with two contacts
MaxLenTexto == 3    \* length of the strings given to the normalization functions
MaxVezes == 2       \* applications of a normalization function to one string

(***************************************************************************)
(* Characters and strings.                                                 *)
(***************************************************************************)
Digitos == {"0", "1", "2", "3", "4", "5", "6", "7", "8", "9"}

\* JavaScript white space as removed by String.prototype.trim
Brancos == {" ", "\t"}

\* repeat a character n times
Rep(ch, n) == [i \in 1..n |-> ch]

\* the subsequence of s of the characters that are in the set keep
Filtrar(s, keep) == SelectSeq(s, LAMBDA ch : ch \in keep)

\* SQL REPLACE(s, ch, ''): every occurrence of the one-character string ch removed
SemChar(s, ch) == SelectSeq(s, LAMBDA c : c # ch)

\* s without its leading white space
TrimEsq(s) ==
    IF \A i \in 1..Len(s) : s[i] \in Brancos THEN <<>>
    ELSE SubSeq(s, CHOOSE i \in 1..Len(s) :
                       s[i] \notin Brancos /\ \A j \in 1..(i - 1) : s[j] \in Brancos,
                Len(s))

\* s without its trailing white space
TrimDir(s) ==
    IF \A i \in 1..Len(s) : s[i] \in Brancos THEN <<>>
    ELSE SubSeq(s, 1, CHOOSE i \in 1..Len(s) :
                          s[i] \notin Brancos /\ \A j \in (i + 1)..Len(s) : s[j] \in Brancos)

\* String.prototype.trim
Trim(s) == TrimDir(TrimEsq(s))

\* String.prototype.substring(0, n)
Substring0(s, n) == IF Len(s) <= n THEN s ELSE SubSeq(s, 1, n)

(***************************************************************************)
(* JavaScript values of a request body.  A scalar is a record with a type  *)
(* tag t, the characters s of a string and the value n of a number; the    *)
(* telefones field is a record with a tag and the elements a of an array.  *)
(***************************************************************************)
Undef == [t |-> "undefined", s |-> <<>>, n |-> 0]
Nulo == [t |-> "null", s |-> <<>>, n |-> 0]
Str(s) == [t |-> "string", s |-> s, n |-> 0]
Num(n) == [t |-> "number", s |-> <<>>, n |-> n]

TelsUndef == [t |-> "undefined", a |-> <<>>]
TelsStr == [t |-> "string", a |-> <<>>]      \* a non-empty string, not an array
Arr(a) == [t |-> "array", a |-> a]

SanitizarLimite == 200

\* sanitizar, src/public/app.js:851
sanitizar(v) ==
    IF v.t # "string" THEN v ELSE Str(Substring0(Trim(v.s), SanitizarLimite))

\* normalizarNumero with the regular expression /\D+/ without the flag g:
\* only the first run of non-digits is removed
normalizarNumeroSemG(v) ==
    IF v.t # "string" THEN <<>>
    ELSE IF \A i \in 1..Len(v.s) : v.s[i] \in Digitos THEN v.s
    ELSE LET ini == CHOOSE i \in 1..Len(v.s) :
                        v.s[i] \notin Digitos /\ \A j \in 1..(i - 1) : v.s[j] \in Digitos
             fim == CHOOSE i \in ini..Len(v.s) :
                        /\ \A j \in ini..i : v.s[j] \notin Digitos
                        /\ i = Len(v.s) \/ v.s[i + 1] \in Digitos
         IN  SubSeq(v.s, 1, ini - 1) \o SubSeq(v.s, fim + 1, Len(v.s))

\* normalizarNumero, src/public/app.js:863: the digits of a string, '' for a non-string
normalizarNumero(v) ==
    IF v.t # "string" THEN <<>> ELSE Filtrar(v.s, Digitos)

\* normalizarTelefone of the page, src/public/app.js:61, for a string
normalizarTelefone(str) == Filtrar(str, Digitos)

\* SQL_NUMERO_NORMALIZADO, src/public/app.js:873, applied to a stored NUMERO
SQL_NUMERO_NORMALIZADO(numero) ==
    SemChar(SemChar(SemChar(SemChar(numero, "("), ")"), "-"), " ")


(***************************************************************************)
(* parseInt and the validation functions.                                  *)
(***************************************************************************)
DigitoSeq == <<"0", "1", "2", "3", "4", "5", "6", "7", "8", "9">>

ValorDigito(ch) == (CHOOSE i \in 1..10 : DigitoSeq[i] = ch) - 1

RECURSIVE PrefixoDigitos(_)
\* the longest prefix of s made of digits
PrefixoDigitos(s) ==
    IF s # <<>> /\ Head(s) \in Digitos THEN <<Head(s)>> \o PrefixoDigitos(Tail(s)) ELSE <<>>

RECURSIVE ValorDecimal(_)
\* the number a sequence of digits denotes
ValorDecimal(d) ==
    IF d = <<>> THEN 0 ELSE 10 * ValorDecimal(SubSeq(d, 1, Len(d) - 1)) + ValorDigito(d[Len(d)])

NaN == [nan |-> TRUE, n |-> 0]
Inteiro(n) == [nan |-> FALSE, n |-> n]

\* parseInt of a string: leading white space, an optional sign, then the
\* longest run of digits; NaN when there is no digit
parseIntStr(s) ==
    LET t == TrimEsq(s)
        neg == t # <<>> /\ Head(t) = "-"
        u == IF t # <<>> /\ Head(t) \in {"-", "+"} THEN Tail(t) ELSE t
        d == PrefixoDigitos(u)
    IN  IF d = <<>> THEN NaN
        ELSE Inteiro(IF neg THEN 0 - ValorDecimal(d) ELSE ValorDecimal(d))

\* parseInt(v) for the values a body can carry (numbers are integers here)
parseInt(v) ==
    CASE v.t = "number" -> Inteiro(v.n)
      [] v.t = "string" -> parseIntStr(v.s)
      [] OTHER -> NaN

\* JavaScript truthiness of a scalar
Truthy(v) ==
    CASE v.t = "string" -> v.s # <<>>
      [] v.t = "number" -> v.n # 0
      [] OTHER -> FALSE

NomeMax == 100
IdadeMin == 1
IdadeMax == 150

\* validarContato without the check of the age
validarContatoSemIdade(nome, idade) ==
    IF ~Truthy(nome) \/ Len(Trim(nome.s)) = 0 THEN <<"Nome obrigatorio">>
    ELSE IF Len(nome.s) > NomeMax THEN <<"Nome max 100">>
    ELSE <<>>

\* validarContato, src/public/app.js:886: the list of error messages.
\* The name is a string, null or undefined (the documented body format).
validarContato(nome, idade) ==
    LET errosNome ==
            IF ~Truthy(nome) \/ Len(Trim(nome.s)) = 0 THEN <<"Nome obrigatorio">>
            ELSE IF Len(nome.s) > NomeMax THEN <<"Nome max 100">>
            ELSE <<>>
        errosIdade ==
            IF idade.t # "null" /\ idade.t # "undefined" /\ idade # Str(<<>>)
            THEN LET idadeNum == parseInt(idade)
                 IN  IF idadeNum.nan \/ idadeNum.n < IdadeMin \/ idadeNum.n > IdadeMax
                     THEN <<"Idade entre 1 e 150">> ELSE <<>>
            ELSE <<>>
    IN  errosNome \o errosIdade

TelMin == 10
TelMax == 11

\* validarTelefone without the lower limit
validarTelefoneSemMinimo(numero) == Len(normalizarNumero(numero)) <= TelMax

\* validarTelefone, src/public/app.js:915 (the filter of PUT)
validarTelefone(numero) ==
    LET normalizado == normalizarNumero(numero)
    IN  Len(normalizado) >= TelMin /\ Len(normalizado) <= TelMax

\* a filter of POST that keeps every string
PostTelefoneQualquer(tel) == tel.t = "string"

\* the inline filter predicate of POST, src/public/app.js:1103
PostTelefoneValido(tel) ==
    LET normalizado == normalizarNumero(tel)
    IN  Len(normalizado) >= TelMin /\ Len(normalizado) <= TelMax

\* !telefones || !Array.isArray(telefones) || telefones.length === 0
TelefonesAusentes(telefones) ==
    telefones.t # "array" \/ Len(telefones.a) = 0

RECURSIVE FiltrarTels(_, _)
\* Array.prototype.filter over the elements, pred is "post" or "put"
FiltrarTels(a, pred) ==
    IF a = <<>> THEN <<>>
    ELSE (IF (IF pred = "post" THEN PostTelefoneValido(Head(a)) ELSE validarTelefone(Head(a)))
          THEN <<Head(a)>> ELSE <<>>) \o FiltrarTels(Tail(a), pred)

\* idade ? parseInt(idade) : null, the IDADE column value (SQL NULL or an integer)
IdadeNula == [null |-> TRUE, n |-> 0]
IdadeDe(n) == [null |-> FALSE, n |-> n]
idadeNum(idade) == IF Truthy(idade) THEN IdadeDe(parseInt(idade).n) ELSE IdadeNula


(***************************************************************************)
(* The store: tables Contato and Telefone (src/database.js).               *)
(*   contato     ID -> [NOME, IDADE], the rows of Contato                   *)
(*   telefone    the rows [IDCONTATO, NUMERO] of Telefone in rowid order    *)
(*   seqContato  the AUTOINCREMENT counter of Contato (sqlite_sequence)     *)
(* The audit log: log is the content of logs/exclusoes.txt, logPend the    *)
(* fs.appendFile calls not yet completed.                                  *)
(* pedidos are the write requests in flight, faults the failures the       *)
(* environment may still inject, resp the HTTP response sent by the last   *)
(* step (NoResp when the step sent none).                                  *)
(* restam is the number of write requests the clients of the concurrent     *)
(* specification still send.                                               *)
(***************************************************************************)
VARIABLES contato, telefone, seqContato, log, logPend, pedidos, faults, resp, restam

(***************************************************************************)
(* The page (the frontend part of src/public/app.js):                      *)
(*   contatoEditandoId  the global of that name, null or the id in edition  *)
(*   contatoIdHidden    the value of the hidden form field of that name     *)
(*   salvando           the call of salvarContato in progress               *)
(*   editando           the call of editarContato in progress               *)
(*   modalDuplicata     the contact the duplicate modal offers to edit      *)
(***************************************************************************)
VARIABLES contatoEditandoId, contatoIdHidden, salvando, editando, modalDuplicata

(***************************************************************************)
(* texto is a string given to a normalization function, normalizado the    *)
(* results of applying the function to it and again to each result.        *)
(***************************************************************************)
VARIABLES texto, normalizado

(***************************************************************************)
(* The page, continued:                                                    *)
(*   formulario  the dados of the call of salvarContato in progress        *)
(*   consultas   the fetches of carregarContatos and pesquisarContatos in   *)
(*               flight; n numbers them in the order they were issued      *)
(*   emitidas    the number of such fetches issued so far                  *)
(*   mostrado    the number of the fetch whose answer renderizarContatos   *)
(*               rendered last, 0 before the first rendering               *)
(*   currentSearchController  the number of the search whose               *)
(*               AbortController the global of that name holds, 0 for null *)
(***************************************************************************)
VARIABLES formulario, consultas, emitidas, mostrado, currentSearchController

navegador == <<formulario, consultas, emitidas, mostrado, currentSearchController>>

pagina == <<contatoEditandoId, contatoIdHidden, salvando, editando, modalDuplicata>>

vars == <<contato, telefone, seqContato, log, logPend, pedidos, faults, resp, restam,
          pagina, texto, normalizado, navegador>>

\* a step of the server leaves the page and the text alone
SoServidor == UNCHANGED <<pagina, texto, normalizado, navegador>>

\* the slots for requests in flight (their number is fixed by the initial state)
Slots == DOMAIN pedidos

\* foreign keys left off (the default of SQLite): any IDCONTATO is accepted
FkDesligada(c, idc) == TRUE

\* PRAGMA foreign_keys = ON with FOREIGN KEY (IDCONTATO) REFERENCES Contato(ID):
\* an INSERT of a Telefone row is accepted only if its parent row exists
FkOk(c, idc) == idc \in DOMAIN c

\* a UNIQUE constraint on Telefone.NUMERO: a value already stored is refused
NumeroUnique(tel, numero) == \A i \in 1..Len(tel) : tel[i].NUMERO # numero

\* the constraints of CREATE TABLE Telefone on the column NUMERO (NOT NULL
\* only, src/database.js:163): every string is accepted, stored or not
NumeroOk(tel, numero) == TRUE

\* a foreign key without ON DELETE CASCADE and not enforced: the rows stay
SemCascade(tel, idc) == tel

\* ON DELETE CASCADE: the Telefone rows left when Contato row idc is deleted
Cascade(tel, idc) == SelectSeq(tel, LAMBDA row : row.IDCONTATO # idc)

\* DELETE FROM Telefone WHERE IDCONTATO = idc
DeleteTelefones(tel, idc) == SelectSeq(tel, LAMBDA row : row.IDCONTATO # idc)

\* INSERT INTO Contato with INTEGER PRIMARY KEY alone: the id after the
\* largest id of the table
ProximoIdSemAutoincrement(c, seq) ==
    (IF DOMAIN c = {} THEN 0 ELSE CHOOSE m \in DOMAIN c : \A i \in DOMAIN c : i <= m) + 1

\* INSERT INTO Contato: AUTOINCREMENT takes the id after the largest ever used
ProximoId(c, seq) ==
    LET maior == IF DOMAIN c = {} THEN 0 ELSE CHOOSE m \in DOMAIN c : \A i \in DOMAIN c : i <= m
    IN  (IF seq > maior THEN seq ELSE maior) + 1

\* the INSERT INTO Contato still pending when the handler goes on: no row yet
InsertContatoPendente(c, id, nome, idade) == c

\* INSERT INTO Contato (NOME, IDADE) VALUES (?, ?), completed
InsertContato(c, id, nome, idade) ==
    [i \in DOMAIN c \cup {id} |-> IF i = id THEN [NOME |-> nome, IDADE |-> idade] ELSE c[i]]

\* UPDATE Contato SET NOME = ?, IDADE = ? without its WHERE: every row
UpdateContatoSemWhere(c, id, nome, idade) ==
    [i \in DOMAIN c |-> [NOME |-> nome, IDADE |-> idade]]

\* UPDATE Contato SET NOME = ?, IDADE = ? WHERE ID = ?
UpdateContato(c, id, nome, idade) ==
    [i \in DOMAIN c |-> IF i = id THEN [NOME |-> nome, IDADE |-> idade] ELSE c[i]]

DeleteContato(c, id) == [i \in DOMAIN c \ {id} |-> c[i]]

\* a URL parameter compared with, or stored in, an INTEGER column: the
\* integer it denotes, or 0 (no row has ID 0) when it is not a number
AfinidadeInteira(param) ==
    IF param # <<>> /\ \A i \in 1..Len(param) : param[i] \in Digitos
    THEN ValorDecimal(param) ELSE 0

\* the URL parameter that denotes id
IdParam(id) == <<DigitoSeq[id + 1]>>

RECURSIVE NumerosDe(_, _)
\* the NUMERO of the rows of contact idc, in rowid order
NumerosDe(tel, idc) ==
    IF tel = <<>> THEN <<>>
    ELSE (IF Head(tel).IDCONTATO = idc THEN <<Head(tel).NUMERO>> ELSE <<>>)
         \o NumerosDe(Tail(tel), idc)

SqlNull == [null |-> TRUE, s |-> <<>>]
SqlText(s) == [null |-> FALSE, s |-> s]

RECURSIVE Juntar(_)
Juntar(nums) ==
    IF Len(nums) = 1 THEN nums[1] ELSE nums[1] \o <<"|", "|">> \o Juntar(Tail(nums))

\* GROUP_CONCAT(t.NUMERO, '||'): NULL for no row
GroupConcat(nums) == IF nums = <<>> THEN SqlNull ELSE SqlText(Juntar(nums))

\* the position of the first '||' in s, 0 when there is none
PrimeiroSep(s) ==
    LET seps == {i \in 1..(Len(s) - 1) : s[i] = "|" /\ s[i + 1] = "|"}
    IN  IF seps = {} THEN 0 ELSE CHOOSE i \in seps : \A j \in seps : i <= j

RECURSIVE SplitAcc(_, _)
\* String.prototype.split('||'), acc holds the pieces already cut off
SplitAcc(s, acc) ==
    IF PrimeiroSep(s) = 0 THEN Append(acc, s)
    ELSE SplitAcc(SubSeq(s, PrimeiroSep(s) + 2, Len(s)),
                  Append(acc, SubSeq(s, 1, PrimeiroSep(s) - 1)))

\* row.TELEFONES ? row.TELEFONES.split('||') : []
TelefonesDaLinha(col) == IF col.null \/ col.s = <<>> THEN <<>> ELSE SplitAcc(col.s, <<>>)

\* the object the handlers build from a row of the SELECT ... GROUP BY c.ID
Objeto(c, id, nums) ==
    [ID |-> id, NOME |-> c[id].NOME, IDADE |-> c[id].IDADE,
     TELEFONES |-> TelefonesDaLinha(GroupConcat(nums))]


(***************************************************************************)
(* The inputs of the model: names, ages, phone strings and request bodies. *)
(***************************************************************************)
Ana == <<"A", "n", "a">>
Bob == <<"B", "o", "b">>

\* "(11) 98765-4321", "11987654321", "11.98765.4321": one number, three formats
TelFormatado == <<"(", "1", "1", ")", " ", "9", "8", "7", "6", "5", "-", "4", "3", "2", "1">>
TelDigitos == <<"1", "1", "9", "8", "7", "6", "5", "4", "3", "2", "1">>
TelPontos == <<"1", "1", ".", "9", "8", "7", "6", "5", ".", "4", "3", "2", "1">>
\* "1134567890", a second number, and "123", too short
TelFixo == <<"1", "1", "3", "4", "5", "6", "7", "8", "9", "0">>
TelCurto == <<"1", "2", "3">>

Body(nome, idade, telefones) == [nome |-> nome, idade |-> idade, telefones |-> telefones]

NoBody == Body(Undef, Undef, TelsUndef)

\* bodies that pass the validation of POST and PUT
BodiesOk ==
    { Body(Str(Ana), Num(30), Arr(<<Str(TelFormatado)>>)),
      Body(Str(Bob), Nulo, Arr(<<Str(TelDigitos)>>)),
      Body(Str(Bob), Str(<<"4", "1">>), Arr(<<Str(TelPontos), Str(TelFixo)>>)),
      Body(Str(Ana), Nulo, Arr(<<Str(TelCurto), Str(TelFixo)>>)) }

\* bodies with a bad name, a bad age or a bad phone list
BodiesBad ==
    { Body(Undef, Num(30), Arr(<<Str(TelDigitos)>>)),
      Body(Str(<<>>), Nulo, Arr(<<Str(TelDigitos)>>)),
      Body(Str(<<" ", " ">>), Nulo, Arr(<<Str(TelDigitos)>>)),
      Body(Str(Rep("x", NomeMax + 1)), Nulo, Arr(<<Str(TelDigitos)>>)),
      Body(Str(Ana), Num(0), Arr(<<Str(TelDigitos)>>)),
      Body(Str(Ana), Num(IdadeMax + 1), Arr(<<Str(TelDigitos)>>)),
      Body(Str(Ana), Str(<<"a", "b", "c">>), Arr(<<Str(TelDigitos)>>)),
      Body(Str(Ana), Num(30), TelsUndef),
      Body(Str(Ana), Num(30), TelsStr),
      Body(Str(Ana), Num(30), Arr(<<>>)),
      Body(Str(Ana), Num(30), Arr(<<Str(TelCurto)>>)),
      Body(Str(Ana), Num(30), Arr(<<Num(1134567890)>>)) }

Bodies == BodiesOk \cup BodiesBad

\* three more phone strings with 10 or 11 digits: " 1134567890 " with blanks
\* around it, "11987||654321" with the separator of GROUP_CONCAT inside, and
\* "1", 200 hyphens, "1987654321", longer than the limit of sanitizar
TelEspacos == <<" ">> \o TelFixo \o <<" ">>
TelBarras == <<"1", "1", "9", "8", "7", "|", "|", "6", "5", "4", "3", "2", "1">>
TelLongo == <<"1">> \o Rep("-", SanitizarLimite)
                \o <<"1", "9", "8", "7", "6", "5", "4", "3", "2", "1">>

\* accepted bodies that carry them
BodiesFormato ==
    { Body(Str(<<" ">> \o Ana), Num(30), Arr(<<Str(TelEspacos)>>)),
      Body(Str(Bob), Nulo, Arr(<<Str(TelBarras)>>)),
      Body(Str(Bob), Nulo, Arr(<<Str(TelLongo)>>)) }

\* the bodies of the sequential specification
BodiesSeq == BodiesOk \cup BodiesFormato

\* the longest phone list of a body
MaxPend == CHOOSE m \in 0..8 : /\ \A b \in Bodies : Len(b.telefones.a) <= m
                              /\ \E b \in Bodies : Len(b.telefones.a) = m

\* the id segments of the URL of GET, PUT and DELETE /api/contatos/:id
IdParams(n) == {IdParam(id) : id \in 1..n}

\* candidate lists of POST /api/telefones/verificar
Candidatos ==
    { TelsUndef,
      Arr(<<Str(TelDigitos)>>),
      Arr(<<Str(TelFormatado), Str(TelFixo)>>),
      Arr(<<Str(<<"-">>)>>) }

(***************************************************************************)
(* Requests in flight and responses.                                       *)
(***************************************************************************)
NoLinha == [ID |-> <<>>, NOME |-> <<>>, TELEFONES |-> <<>>]

\* the row and the phones of contact id
Antes(c, tel, id) == [linha |-> c[id], numeros |-> NumerosDe(tel, id)]

NoAntes == [linha |-> [NOME |-> <<>>, IDADE |-> IdadeNula], numeros |-> <<>>]

\* junto and antes are history, not state of the program: junto records that
\* another PUT for the same contact was in flight while this PUT was, antes
\* the row and the phones the contact had when this PUT was received
Idle == [kind |-> "idle", pc |-> "-", id |-> 0, body |-> NoBody, pend |-> <<>>,
         respondeu |-> FALSE, linha |-> NoLinha, junto |-> FALSE, antes |-> NoAntes]

Pedido(kind, pc, id, body, pend, linha) ==
    [kind |-> kind, pc |-> pc, id |-> id, body |-> body, pend |-> pend,
     respondeu |-> FALSE, linha |-> linha, junto |-> FALSE, antes |-> NoAntes]

NoResp == [kind |-> "none", status |-> 0, param |-> <<>>, body |-> NoBody,
           changes |-> 0, lastID |-> 0, corpo |-> <<>>, erro |-> "", termo |-> <<>>]

Resposta(kind, status, param, body) ==
    [kind |-> kind, status |-> status, param |-> param, body |-> body,
     changes |-> 0, lastID |-> 0, corpo |-> <<>>,
     erro |-> CASE status = 404 -> "Contato nao encontrado"
                [] status = 500 -> "Erro"
                [] OTHER -> "",
     termo |-> <<>>]

\* the erro of the 400 answer of POST and PUT: the messages of validarContato,
\* else the message of the phone-list check that failed
Erro400(b) ==
    IF validarContato(b.nome, b.idade) # <<>> THEN "validarContato"
    ELSE IF TelefonesAusentes(b.telefones) THEN "Pelo menos um telefone e obrigatorio"
    ELSE "Nenhum telefone valido fornecido"

\* a client sends a request
Envia == restam > 0 /\ restam' = restam - 1

\* the free slot a new request in flight takes
SlotLivre == CHOOSE r \in Slots : pedidos[r] = Idle /\ \A q \in Slots : pedidos[q] = Idle => r <= q

TemSlot == \E r \in Slots : pedidos[r] = Idle

\* sequence s without its i-th element
Sem(s, i) == SubSeq(s, 1, i - 1) \o SubSeq(s, i + 1, Len(s))

\* telefonesValidos.map(tel => sanitizar(tel)): the NUMERO values to insert
Limpos(validos) == [i \in 1..Len(validos) |-> sanitizar(validos[i]).s]

\* the database file agenda.db at start-up (CREATE TABLE IF NOT EXISTS keeps
\* the rows of earlier runs): empty, or holding the contact an earlier
\* POST {Ana, 30, ["(11) 98765-4321"]} created
BancoVazio == [contato |-> <<>>, telefone |-> <<>>, seq |-> 0]

BancoAna ==
    [contato |-> <<[NOME |-> Ana, IDADE |-> IdadeDe(30)]>>,
     telefone |-> <<[IDCONTATO |-> 1, NUMERO |-> TelFormatado]>>,
     seq |-> 1]

\* the database file after two creates of an earlier run
BancoAnaBob ==
    [contato |-> <<[NOME |-> Ana, IDADE |-> IdadeDe(30)], [NOME |-> Bob, IDADE |-> IdadeNula]>>,
     telefone |-> <<[IDCONTATO |-> 1, NUMERO |-> TelFormatado],
                    [IDCONTATO |-> 2, NUMERO |-> TelFixo]>>,
     seq |-> 2]

\* salvarContato and editarContato at rest
SalvarParado == [pc |-> "-", verificou |-> FALSE, metodo |-> "-", id |-> 0]
EditarParado == [pc |-> "-", id |-> 0]

\* the form of the page after DOMContentLoaded: creation mode, src/public/app.js:31
FormularioParado ==
    /\ contatoEditandoId = Nulo
    /\ contatoIdHidden = <<>>
    /\ salvando = SalvarParado
    /\ editando = EditarParado
    /\ modalDuplicata = 0
    /\ formulario = NoBody

\* a fetch of the list (carregarContatos) or of a search (pesquisarContatos)
Consulta(n, tipo) == [n |-> n, tipo |-> tipo, abortada |-> FALSE]

\* DOMContentLoaded has called carregarContatos, src/public/app.js:653: the
\* first fetch of the list is in flight and nothing is rendered
ListaCarregando ==
    /\ consultas = {Consulta(1, "lista")}
    /\ emitidas = 1
    /\ mostrado = 0
    /\ currentSearchController = 0

\* the answer to that fetch has arrived and is rendered
ListaCarregada ==
    /\ consultas = {}
    /\ emitidas = 1
    /\ mostrado = 1
    /\ currentSearchController = 0

\* the page after DOMContentLoaded, its first list rendered
PaginaCarregada == FormularioParado /\ ListaCarregada

SemTexto == texto = <<>> /\ normalizado = <<>>

\* the state after start-up on one of the databases bancos: nslots requests
\* may be in flight at once, the environment may inject nfaults failures and
\* the clients send npedidos requests
Inicio(bancos, nslots, nfaults, npedidos) ==
    /\ \E banco \in bancos :
          /\ contato = banco.contato
          /\ telefone = banco.telefone
          /\ seqContato = banco.seq
    /\ log = <<>>
    /\ logPend = <<>>
    /\ pedidos = [r \in 1..nslots |-> Idle]
    /\ faults = nfaults
    /\ resp = NoResp
    /\ restam = npedidos

Init ==
    /\ Inicio({BancoVazio, BancoAna}, MaxInFlight, MaxFaults, MaxPedidos)
    /\ PaginaCarregada
    /\ SemTexto


(***************************************************************************)
(* POST /api/contatos, src/public/app.js:1089.  The step validates the     *)
(* body and runs INSERT INTO Contato; the phone inserts are then issued    *)
(* together and run one per step (InsereTelefone), in any order.           *)
(***************************************************************************)
PostServidor(b, limite) ==
    /\ LET validos == FiltrarTels(b.telefones.a, "post")
       IN  IF validarContato(b.nome, b.idade) # <<>>
              \/ TelefonesAusentes(b.telefones)
              \/ validos = <<>>
           THEN /\ resp' = [Resposta("POST", 400, <<>>, b) EXCEPT !.erro = Erro400(b)]
                /\ UNCHANGED <<contato, telefone, seqContato, log, logPend, pedidos, faults>>
           ELSE \/ /\ TemSlot
                   /\ seqContato < limite
                   /\ LET contatoId == ProximoId(contato, seqContato)
                      IN  /\ contato' = InsertContato(contato, contatoId,
                                                      sanitizar(b.nome).s, idadeNum(b.idade))
                          /\ seqContato' = contatoId
                          /\ pedidos' = [pedidos EXCEPT ![SlotLivre] =
                                 Pedido("POST", "insTel", contatoId, b, Limpos(validos), NoLinha)]
                   /\ resp' = NoResp
                   /\ UNCHANGED <<telefone, log, logPend, faults>>
                \/ /\ faults > 0
                   /\ faults' = faults - 1
                   /\ resp' = Resposta("POST", 500, <<>>, b)
                   /\ UNCHANGED <<contato, telefone, seqContato, log, logPend, pedidos>>

\* a client other than the page sends POST /api/contatos
Post(b, limite) ==
    /\ Envia
    /\ SoServidor
    /\ PostServidor(b, limite)

(***************************************************************************)
(* One INSERT INTO Telefone of a POST or PUT in flight, with its callback  *)
(* and the Promise.all of the handler: 201/200 after the last insert when  *)
(* none failed, 500 at the first failure (the other inserts still run).    *)
(***************************************************************************)
InsereTelefone(r, i) ==
    /\ pedidos[r].pc = "insTel"
    /\ i \in 1..Len(pedidos[r].pend)
    /\ LET p == pedidos[r]
           resto == Sem(p.pend, i)
           fim == resto = <<>>
           param == IF p.kind = "PUT" THEN IdParam(p.id) ELSE <<>>
           aceito == FkOk(contato, p.id) /\ NumeroOk(telefone, p.pend[i])
       IN  \/ /\ aceito
              /\ telefone' = Append(telefone, [IDCONTATO |-> p.id, NUMERO |-> p.pend[i]])
              /\ pedidos' = [pedidos EXCEPT ![r] = IF fim THEN Idle ELSE [p EXCEPT !.pend = resto]]
              /\ resp' = IF fim /\ ~p.respondeu
                         THEN [Resposta(p.kind, IF p.kind = "POST" THEN 201 ELSE 200, param, p.body)
                                  EXCEPT !.lastID = IF p.kind = "POST" THEN p.id ELSE 0,
                                         !.changes = IF p.kind = "PUT" THEN 1 ELSE 0]
                         ELSE NoResp
              /\ UNCHANGED faults
           \/ /\ ~aceito \/ faults > 0
              /\ faults' = IF aceito THEN faults - 1 ELSE faults
              /\ pedidos' = [pedidos EXCEPT ![r] =
                     IF fim THEN Idle ELSE [p EXCEPT !.pend = resto, !.respondeu = TRUE]]
              /\ resp' = IF ~p.respondeu THEN Resposta(p.kind, 500, param, p.body) ELSE NoResp
              /\ UNCHANGED telefone
    /\ UNCHANGED <<contato, seqContato, log, logPend>>
    /\ UNCHANGED restam
    /\ SoServidor

(***************************************************************************)
(* PUT /api/contatos/:id, src/public/app.js:1167.  The step validates the  *)
(* body and runs the UPDATE; DELETE FROM Telefone is the next step         *)
(* (ApagaTelefones), then the inserts (InsereTelefone).                    *)
(***************************************************************************)
Put(param, b) ==
    /\ Envia
    /\ SoServidor
    /\ LET validos == FiltrarTels(b.telefones.a, "put")
           id == AfinidadeInteira(param)
       IN  IF validarContato(b.nome, b.idade) # <<>>
              \/ TelefonesAusentes(b.telefones)
              \/ validos = <<>>
           THEN /\ resp' = [Resposta("PUT", 400, param, b) EXCEPT !.erro = Erro400(b)]
                /\ UNCHANGED <<contato, telefone, seqContato, log, logPend, pedidos, faults>>
           ELSE \/ /\ id \notin DOMAIN contato
                   /\ resp' = Resposta("PUT", 404, param, b)
                   /\ UNCHANGED <<contato, telefone, seqContato, log, logPend, pedidos, faults>>
                \/ /\ id \in DOMAIN contato
                   /\ TemSlot
                   /\ contato' = UpdateContato(contato, id, sanitizar(b.nome).s, idadeNum(b.idade))
                   /\ pedidos' = [r \in Slots |->
                          IF r = SlotLivre
                          THEN [Pedido("PUT", "delTel", id, b, Limpos(validos), NoLinha)
                                   EXCEPT !.junto = \E q \in Slots : /\ pedidos[q].kind = "PUT"
                                                                     /\ pedidos[q].id = id,
                                          !.antes = Antes(contato, telefone, id)]
                          ELSE IF pedidos[r].kind = "PUT" /\ pedidos[r].id = id
                               THEN [pedidos[r] EXCEPT !.junto = TRUE]
                               ELSE pedidos[r]]
                   /\ resp' = NoResp
                   /\ UNCHANGED <<telefone, seqContato, log, logPend, faults>>
                \/ /\ faults > 0
                   /\ faults' = faults - 1
                   /\ resp' = Resposta("PUT", 500, param, b)
                   /\ UNCHANGED <<contato, telefone, seqContato, log, logPend, pedidos>>

\* DELETE FROM Telefone WHERE IDCONTATO = ? of a PUT in flight, src/public/app.js:1206
ApagaTelefones(r) ==
    /\ pedidos[r].pc = "delTel"
    /\ LET p == pedidos[r]
       IN  \/ /\ telefone' = DeleteTelefones(telefone, p.id)
              /\ pedidos' = [pedidos EXCEPT ![r] = [p EXCEPT !.pc = "insTel"]]
              /\ resp' = NoResp
              /\ UNCHANGED faults
           \/ /\ faults > 0
              /\ faults' = faults - 1
              /\ pedidos' = [pedidos EXCEPT ![r] = Idle]
              /\ resp' = Resposta("PUT", 500, IdParam(p.id), p.body)
              /\ UNCHANGED telefone
    /\ UNCHANGED <<contato, seqContato, log, logPend>>
    /\ UNCHANGED restam
    /\ SoServidor

(***************************************************************************)
(* DELETE /api/contatos/:id, src/public/app.js:1251.  The step runs the    *)
(* SELECT and, when the row exists, calls gravarLog (which only starts the *)
(* fs.appendFile) and issues DELETE FROM Contato, run by ApagaContato.     *)
(***************************************************************************)
Delete(param) ==
    /\ Envia
    /\ SoServidor
    /\ LET id == AfinidadeInteira(param)
       IN  \/ /\ id \notin DOMAIN contato
              /\ resp' = Resposta("DELETE", 404, param, NoBody)
              /\ UNCHANGED <<contato, telefone, seqContato, log, logPend, pedidos, faults>>
           \/ /\ id \in DOMAIN contato
              /\ TemSlot
              /\ LET row == Objeto(contato, id, NumerosDe(telefone, id))
                     linha == [ID |-> param, NOME |-> row.NOME, TELEFONES |-> row.TELEFONES]
                 IN  /\ logPend' = Append(logPend, linha)
                     /\ pedidos' = [pedidos EXCEPT ![SlotLivre] =
                            Pedido("DELETE", "delContato", id, NoBody, <<>>, linha)]
              /\ resp' = NoResp
              /\ UNCHANGED <<contato, telefone, seqContato, log, faults>>
           \/ /\ faults > 0
              /\ faults' = faults - 1
              /\ resp' = Resposta("DELETE", 500, param, NoBody)
              /\ UNCHANGED <<contato, telefone, seqContato, log, logPend, pedidos>>

\* DELETE FROM Contato WHERE ID = ? of a DELETE in flight, src/public/app.js:1282:
\* the handler answers 200 without looking at this.changes
ApagaContato(r) ==
    /\ pedidos[r].pc = "delContato"
    /\ LET p == pedidos[r]
       IN  \/ /\ contato' = DeleteContato(contato, p.id)
              /\ telefone' = Cascade(telefone, p.id)
              /\ resp' = [Resposta("DELETE", 200, IdParam(p.id), NoBody)
                             EXCEPT !.changes = IF p.id \in DOMAIN contato THEN 1 ELSE 0]
              /\ UNCHANGED faults
           \/ /\ faults > 0
              /\ faults' = faults - 1
              /\ resp' = Resposta("DELETE", 500, IdParam(p.id), NoBody)
              /\ UNCHANGED <<contato, telefone>>
    /\ pedidos' = [pedidos EXCEPT ![r] = Idle]
    /\ UNCHANGED <<seqContato, log, logPend>>
    /\ UNCHANGED restam
    /\ SoServidor

\* completion of one fs.appendFile of gravarLog, src/public/app.js:833: the
\* line is appended, or the append fails and the error is only printed
GravaLinha(i) ==
    /\ i \in 1..Len(logPend)
    /\ logPend' = Sem(logPend, i)
    /\ \/ /\ log' = Append(log, logPend[i])
          /\ UNCHANGED faults
       \/ /\ faults > 0
          /\ faults' = faults - 1
          /\ UNCHANGED log
    /\ resp' = NoResp
    /\ UNCHANGED <<contato, telefone, seqContato, pedidos>>
    /\ UNCHANGED restam
    /\ SoServidor

(***************************************************************************)
(* The read queries.                                                       *)
(***************************************************************************)
\* the characters of the model in code order (BINARY collation of ORDER BY)
Alfabeto == <<"\t", " ", "(", ")", "+", "-", ".",
              "0", "1", "2", "3", "4", "5", "6", "7", "8", "9",
              "A", "B", "N", "O", "X", "a", "b", "c", "n", "o", "x", "|">>

Codigo(ch) == CHOOSE i \in 1..Len(Alfabeto) : Alfabeto[i] = ch

RECURSIVE MenorOuIgual(_, _)
\* a <= b in the BINARY collation
MenorOuIgual(a, b) ==
    IF a = <<>> THEN TRUE
    ELSE IF b = <<>> THEN FALSE
    ELSE IF Head(a) = Head(b) THEN MenorOuIgual(Tail(a), Tail(b))
    ELSE Codigo(Head(a)) < Codigo(Head(b))

\* the orders ORDER BY c.NOME may return the rows ids in (ties in any order)
Ordens(c, ids) ==
    { o \in [1..Cardinality(ids) -> ids] :
        /\ \A i, j \in 1..Cardinality(ids) : i # j => o[i] # o[j]
        /\ \A i, j \in 1..Cardinality(ids) : i < j => MenorOuIgual(c[o[i]].NOME, c[o[j]].NOME) }

\* the rows of GROUP BY c.ID in the order of the key
RECURSIVE PorId(_)
PorId(ids) ==
    IF ids = {} THEN <<>>
    ELSE LET m == CHOOSE x \in ids : \A y \in ids : x <= y IN <<m>> \o PorId(ids \ {m})

\* lower case of an ASCII letter, as LIKE folds it
Minuscula(ch) ==
    CASE ch = "A" -> "a" [] ch = "B" -> "b" [] ch = "N" -> "n"
      [] ch = "O" -> "o" [] ch = "X" -> "x" [] OTHER -> ch

RECURSIVE Like(_, _)
\* s LIKE pat in SQLite: % any run, _ any character, ASCII letters fold case
Like(s, pat) ==
    IF pat = <<>> THEN s = <<>>
    ELSE IF Head(pat) = "%" THEN Like(s, Tail(pat)) \/ (s # <<>> /\ Like(Tail(s), pat))
    ELSE /\ s # <<>>
         /\ Head(pat) = "_" \/ Minuscula(Head(pat)) = Minuscula(Head(s))
         /\ Like(Tail(s), Tail(pat))

\* SELECT of GET /api/contatos, src/public/app.js:941, in the order ordem
ListaContatos(c, tel, ordem) ==
    [i \in 1..Len(ordem) |-> Objeto(c, ordem[i], NumerosDe(tel, ordem[i]))]

\* the Telefone rows of contact id that the WHERE of the search keeps
NumerosPesquisa(c, tel, id, termo) ==
    IF Like(c[id].NOME, <<"%">> \o termo \o <<"%">>)
    THEN NumerosDe(tel, id)
    ELSE SelectSeq(NumerosDe(tel, id),
                   LAMBDA num : Like(SQL_NUMERO_NORMALIZADO(num),
                                     <<"%">> \o normalizarNumero(Str(termo)) \o <<"%">>))

\* the contacts the SELECT of the search handler returns, src/public/app.js:1039
IdsPesquisa(c, tel, termo) ==
    { id \in DOMAIN c :
        \/ Like(c[id].NOME, <<"%">> \o termo \o <<"%">>)
        \/ NumerosPesquisa(c, tel, id, termo) # <<>> }

\* the handler of /api/contatos/pesquisar, src/public/app.js:1030, in the order ordem
PesquisaContatos(c, tel, termo, ordem) ==
    IF Trim(termo) = <<>> THEN <<>>
    ELSE [i \in 1..Len(ordem) |-> Objeto(c, ordem[i], NumerosPesquisa(c, tel, ordem[i], termo))]

\* numerosNormalizados of the duplicate check, src/public/app.js:1322
NumerosNormalizados(cands) ==
    SelectSeq([i \in 1..Len(cands) |-> normalizarNumero(cands[i])], LAMBDA n : Len(n) > 0)

\* the Telefone rows of contact id kept by WHERE ... IN (?, ...), src/public/app.js:1335
NumerosVerificar(tel, id, normalizados) ==
    SelectSeq(NumerosDe(tel, id),
              LAMBDA num : \E k \in 1..Len(normalizados) :
                               SQL_NUMERO_NORMALIZADO(num) = normalizados[k])

\* the duplicatas of POST /api/telefones/verificar, src/public/app.js:1315
Duplicatas(c, tel, telefones) ==
    IF TelefonesAusentes(telefones) \/ NumerosNormalizados(telefones.a) = <<>> THEN <<>>
    ELSE LET normalizados == NumerosNormalizados(telefones.a)
             ordem == PorId({id \in DOMAIN c : NumerosVerificar(tel, id, normalizados) # <<>>})
         IN  [i \in 1..Len(ordem) |->
                 Objeto(c, ordem[i], NumerosVerificar(tel, ordem[i], normalizados))]

\* the GET routes under /api/contatos/ in the order app.get registers them
\* (src/public/app.js:983 before src/public/app.js:1030)
RotasGet == <<":id", "pesquisar">>

\* Express takes the first registered route whose pattern matches the segment
RotaDe(segmento) ==
    RotasGet[CHOOSE i \in 1..Len(RotasGet) :
                /\ RotasGet[i] = ":id" \/ RotasGet[i] = segmento
                /\ \A j \in 1..(i - 1) : ~(RotasGet[j] = ":id" \/ RotasGet[j] = segmento)]

SegPesquisar == <<"p", "e", "s", "q", "u", "i", "s", "a", "r">>

\* search terms (req.query.termo; <<>> is also the absent term, which the
\* handler replaces by ''): "", "  ", "98765", "987654321" and "an"
Termos ==
    { <<>>, <<" ", " ">>, <<"9", "8", "7", "6", "5">>,
      <<"9", "8", "7", "6", "5", "4", "3", "2", "1">>, <<"a", "n">> }


(***************************************************************************)
(* The read handlers: one SELECT and its callback, one step each.          *)
(***************************************************************************)
Falha(kind, param, body) ==
    /\ faults > 0
    /\ faults' = faults - 1
    /\ resp' = Resposta(kind, 500, param, body)

\* GET /api/contatos, src/public/app.js:940
Lista ==
    /\ \/ /\ \E ordem \in Ordens(contato, DOMAIN contato) :
                resp' = [Resposta("LISTA", 200, <<>>, NoBody)
                            EXCEPT !.corpo = ListaContatos(contato, telefone, ordem)]
          /\ UNCHANGED faults
       \/ Falha("LISTA", <<>>, NoBody)
    /\ UNCHANGED <<contato, telefone, seqContato, log, logPend, pedidos>>
    /\ Envia
    /\ SoServidor

\* the handler of GET /api/contatos/:id, src/public/app.js:983; termo is the
\* req.query.termo of the request, which this handler never reads
ContatoPorId(param, termo) ==
    /\ \/ /\ resp' = IF AfinidadeInteira(param) \in DOMAIN contato
                     THEN [Resposta("GET", 200, param, NoBody)
                              EXCEPT !.corpo = <<Objeto(contato, AfinidadeInteira(param),
                                                        NumerosDe(telefone, AfinidadeInteira(param)))>>,
                                     !.termo = termo]
                     ELSE [Resposta("GET", 404, param, NoBody) EXCEPT !.termo = termo]
          /\ UNCHANGED faults
       \/ /\ faults > 0
          /\ faults' = faults - 1
          /\ resp' = [Resposta("GET", 500, param, NoBody) EXCEPT !.termo = termo]
    /\ UNCHANGED <<contato, telefone, seqContato, log, logPend, pedidos>>
    /\ Envia
    /\ SoServidor

\* the handler of GET /api/contatos/pesquisar, src/public/app.js:1030
PesquisarHandler(termo) ==
    /\ \/ /\ \E ordem \in Ordens(contato, IdsPesquisa(contato, telefone, termo)) :
                resp' = [Resposta("PESQUISAR", 200, <<>>, NoBody)
                            EXCEPT !.corpo = PesquisaContatos(contato, telefone, termo, ordem),
                                   !.termo = termo]
          /\ UNCHANGED faults
       \/ /\ Trim(termo) # <<>>
          /\ faults > 0
          /\ faults' = faults - 1
          /\ resp' = [Resposta("PESQUISAR", 500, <<>>, NoBody) EXCEPT !.termo = termo]
    /\ UNCHANGED <<contato, telefone, seqContato, log, logPend, pedidos>>
    /\ Envia
    /\ SoServidor

\* a request GET /api/contatos/<id>
Get(param) == ContatoPorId(param, <<>>)

\* a request GET /api/contatos/pesquisar?termo=..., dispatched by the router
Pesquisar(termo) ==
    IF RotaDe("pesquisar") = ":id" THEN ContatoPorId(SegPesquisar, termo)
    ELSE PesquisarHandler(termo)

\* the handler of POST /api/telefones/verificar, src/public/app.js:1315
VerificarServidor(telefones) ==
    /\ \/ /\ resp' = [Resposta("VERIFICAR", 200, <<>>, Body(Undef, Undef, telefones))
                         EXCEPT !.corpo = Duplicatas(contato, telefone, telefones)]
          /\ UNCHANGED faults
       \/ /\ ~TelefonesAusentes(telefones)
          /\ NumerosNormalizados(telefones.a) # <<>>
          /\ Falha("VERIFICAR", <<>>, Body(Undef, Undef, telefones))
    /\ UNCHANGED <<contato, telefone, seqContato, log, logPend, pedidos>>

\* a client other than the page sends POST /api/telefones/verificar
Verificar(telefones) ==
    /\ VerificarServidor(telefones)
    /\ Envia
    /\ SoServidor

\* the bodies of the concurrent specification
BodiesConc ==
    { Body(Str(Ana), Num(30), Arr(<<Str(TelFormatado)>>)),
      Body(Str(Bob), Nulo, Arr(<<Str(TelPontos), Str(TelFixo)>>)),
      Body(Str(Ana), Num(30), Arr(<<Str(TelCurto)>>)) }

(***************************************************************************)
(* Spec: create, update and delete requests interleaved statement by       *)
(* statement, with failures of the store and of the log file.              *)
(***************************************************************************)
Next ==
    \/ \E b \in BodiesConc : Post(b, MaxId)
    \/ \E param \in IdParams(MaxId), b \in BodiesConc : Put(param, b)
    \/ \E param \in IdParams(MaxId) : Delete(param)
    \/ \E param \in IdParams(MaxId) : Get(param)
    \/ \E r \in 1..MaxInFlight, i \in 1..MaxPend : InsereTelefone(r, i)
    \/ \E r \in 1..MaxInFlight : ApagaTelefones(r)
    \/ \E r \in 1..MaxInFlight : ApagaContato(r)
    \/ \E i \in 1..MaxPedidos : GravaLinha(i)

Spec == Init /\ [][Next]_vars

\* the same requests and interleavings when store and log file never fail
InitSemFalhas ==
    /\ Inicio({BancoVazio, BancoAna}, MaxInFlight, 0, MaxPedidos)
    /\ PaginaCarregada
    /\ SemTexto

SpecSemFalhas == InitSemFalhas /\ [][Next]_vars

(***************************************************************************)
(* SpecVal: POST and PUT with every body of Bodies, one request at a time, *)
(* no failures: the validation of the two write handlers.                  *)
(***************************************************************************)
InitVal ==
    /\ Inicio({BancoVazio, BancoAna}, 1, 0, MaxPedidosVal)
    /\ PaginaCarregada
    /\ SemTexto

NextVal ==
    \/ \E b \in Bodies : Post(b, MaxIdVal)
    \/ \E param \in IdParams(MaxIdVal), b \in Bodies : Put(param, b)
    \/ \E i \in 1..MaxPend : InsereTelefone(1, i)
    \/ ApagaTelefones(1)

SpecVal == InitVal /\ [][NextVal]_vars

(***************************************************************************)
(* SpecSeq: creates and updates with the accepted bodies, one request at a *)
(* time, and the read endpoints.                                           *)
(***************************************************************************)
InitSeq ==
    /\ Inicio({BancoVazio, BancoAna}, 1, 0, MaxPedidosSeq)
    /\ PaginaCarregada
    /\ SemTexto

NextSeq ==
    \/ \E b \in BodiesSeq : Post(b, MaxIdSeq)
    \/ \E param \in IdParams(MaxIdSeq), b \in BodiesSeq : Put(param, b)
    \/ \E i \in 1..MaxPend : InsereTelefone(1, i)
    \/ ApagaTelefones(1)
    \/ Lista
    \/ \E param \in IdParams(MaxIdSeq) : Get(param)
    \/ \E termo \in Termos : Pesquisar(termo)
    \/ \E telefones \in Candidatos : Verificar(telefones)

SpecSeq == InitSeq /\ [][NextSeq]_vars


(***************************************************************************)
(* SpecIds: creates and deletes interleaved statement by statement, no     *)
(* failures: the identifiers INSERT INTO Contato hands out.                *)
(***************************************************************************)
BodiesIds == { Body(Str(Ana), Num(30), Arr(<<Str(TelFormatado)>>)) }

InitIds ==
    /\ Inicio({BancoVazio, BancoAna}, MaxInFlight, 0, MaxPedidosIds)
    /\ PaginaCarregada
    /\ SemTexto

NextIds ==
    \/ \E b \in BodiesIds : Post(b, MaxIdIds)
    \/ \E param \in IdParams(MaxIdIds) : Delete(param)
    \/ \E r \in 1..MaxInFlight, i \in 1..MaxPend : InsereTelefone(r, i)
    \/ \E r \in 1..MaxInFlight : ApagaContato(r)
    \/ \E i \in 1..MaxPedidosIds : GravaLinha(i)

SpecIds == InitIds /\ [][NextIds]_vars

(***************************************************************************)
(* SpecNorm: normalizarNumero (server) and normalizarTelefone (page)       *)
(* applied to a string and again to their own results.                     *)
(***************************************************************************)
\* a digit, a second digit, and three formatting characters
CharsTexto == {"1", "2", "(", "-", " "}

Textos == UNION {[1..n -> CharsTexto] : n \in 0..MaxLenTexto}

\* the string the next application takes: the last result, else the input
Atual == IF normalizado = <<>> THEN texto ELSE normalizado[Len(normalizado)].s

\* one more application of f is due: f is the function applied so far
Aplicavel(f) ==
    /\ Len(normalizado) < MaxVezes
    /\ IF normalizado = <<>> THEN TRUE ELSE normalizado[1].f = f

NormalizaNumero ==
    /\ Aplicavel("normalizarNumero")
    /\ normalizado' = Append(normalizado,
                             [f |-> "normalizarNumero", s |-> normalizarNumero(Str(Atual))])
    /\ UNCHANGED <<contato, telefone, seqContato, log, logPend, pedidos, faults, resp, restam,
                   pagina, texto, navegador>>

NormalizaTelefone ==
    /\ Aplicavel("normalizarTelefone")
    /\ normalizado' = Append(normalizado,
                             [f |-> "normalizarTelefone", s |-> normalizarTelefone(Atual)])
    /\ UNCHANGED <<contato, telefone, seqContato, log, logPend, pedidos, faults, resp, restam,
                   pagina, texto, navegador>>

InitNorm ==
    /\ Inicio({BancoVazio}, 1, 0, 0)
    /\ PaginaCarregada
    /\ texto \in Textos
    /\ normalizado = <<>>

NextNorm == NormalizaNumero \/ NormalizaTelefone

SpecNorm == InitNorm /\ [][NextNorm]_vars


(***************************************************************************)
(* SpecPagina: the save and edit flows of the page.  salvarContato and     *)
(* editarContato are async functions: each runs up to its next await in    *)
(* one step, and the steps of the two interleave.  The answers of the      *)
(* server are chosen freely.                                               *)
(***************************************************************************)
\* a step of the page leaves the server and the text alone
SoPagina ==
    UNCHANGED <<contato, telefone, seqContato, log, logPend, pedidos, faults, resp, restam,
                texto, normalizado, navegador>>

\* contatoEditandoId != null
NaoNulo(v) == v.t \notin {"null", "undefined"}

\* idHiddenEl.value ? parseInt(idHiddenEl.value) : null, src/public/app.js:301
idHiddenVal ==
    IF contatoIdHidden # <<>> /\ ~parseIntStr(contatoIdHidden).nan
    THEN Num(parseIntStr(contatoIdHidden).n) ELSE Nulo

\* src/public/app.js:302
idParaAtualizar == IF NaoNulo(contatoEditandoId) THEN contatoEditandoId ELSE idHiddenVal

\* src/public/app.js:299-312: the request salvarContato sends; verificou
\* tells whether this call has called the duplicate check
Envio(verificou) ==
    [pc |-> "enviar", verificou |-> verificou,
     metodo |-> IF NaoNulo(idParaAtualizar) THEN "PUT" ELSE "POST",
     id |-> IF NaoNulo(idParaAtualizar) THEN idParaAtualizar.n ELSE 0]

\* limparFormulario, src/public/app.js:542
limparFormulario ==
    /\ contatoEditandoId' = Nulo
    /\ contatoIdHidden' = <<>>

\* salvarContato up to its first await, src/public/app.js:221-260, for a form
\* that passes the checks of name and phones: the duplicate check is called
\* in creation mode, else the request is sent unless the age is refused
SalvarContato(idadeOk) ==
    /\ salvando.pc = "-"
    /\ IF ~Truthy(contatoEditandoId)
       THEN salvando' = [pc |-> "verificar", verificou |-> TRUE, metodo |-> "-", id |-> 0]
       ELSE idadeOk /\ salvando' = Envio(FALSE)
    /\ UNCHANGED <<contatoEditandoId, contatoIdHidden, editando, modalDuplicata>>
    /\ SoPagina

\* the answer of /api/telefones/verificar arrives, src/public/app.js:265-275:
\* duplicata is the ID of the first duplicate, 0 when there is none or the
\* fetch failed; then the age is checked and the request is sent
VerificarResponde(duplicata, idadeOk) ==
    /\ salvando.pc = "verificar"
    /\ IF duplicata # 0
       THEN /\ modalDuplicata' = duplicata
            /\ salvando' = SalvarParado
       ELSE /\ salvando' = IF idadeOk THEN Envio(TRUE) ELSE SalvarParado
            /\ UNCHANGED modalDuplicata
    /\ UNCHANGED <<contatoEditandoId, contatoIdHidden, editando>>
    /\ SoPagina

\* the answer to the POST or PUT arrives, src/public/app.js:315-333
SalvarResponde(ok) ==
    /\ salvando.pc = "enviar"
    /\ salvando' = SalvarParado
    /\ IF ok THEN limparFormulario ELSE UNCHANGED <<contatoEditandoId, contatoIdHidden>>
    /\ UNCHANGED <<editando, modalDuplicata>>
    /\ SoPagina

\* editarContato up to its await, src/public/app.js:509-513
EditarContato(id) ==
    /\ editando.pc = "-"
    /\ editando' = [pc |-> "buscar", id |-> id]
    /\ UNCHANGED <<contatoEditandoId, contatoIdHidden, salvando, modalDuplicata>>
    /\ SoPagina

\* the answer to GET /api/contatos/:id arrives, src/public/app.js:514-536:
\* the form is filled and the page enters edition, unless the fetch failed
EditarResponde(ok) ==
    /\ editando.pc = "buscar"
    /\ editando' = EditarParado
    /\ IF ok
       THEN /\ contatoEditandoId' = Num(editando.id)
            /\ contatoIdHidden' = IdParam(editando.id)
       ELSE UNCHANGED <<contatoEditandoId, contatoIdHidden>>
    /\ UNCHANGED <<salvando, modalDuplicata>>
    /\ SoPagina

\* mostrarFormulario and cancelarEdicao, src/public/app.js:558 and 632
NovoOuCancela ==
    /\ limparFormulario
    /\ UNCHANGED <<salvando, editando, modalDuplicata>>
    /\ SoPagina

\* the button btnEditarExistente of the duplicate modal, src/public/app.js:605
EditarExistente ==
    /\ modalDuplicata # 0
    /\ editando.pc = "-"
    /\ modalDuplicata' = 0
    /\ editando' = [pc |-> "buscar", id |-> modalDuplicata]
    /\ UNCHANGED <<contatoEditandoId, contatoIdHidden, salvando>>
    /\ SoPagina

\* fecharModalDuplicata, src/public/app.js:622
fecharModalDuplicata ==
    /\ modalDuplicata # 0
    /\ modalDuplicata' = 0
    /\ UNCHANGED <<contatoEditandoId, contatoIdHidden, salvando, editando>>
    /\ SoPagina

InitPagina ==
    /\ Inicio({BancoVazio}, 1, 0, 0)
    /\ PaginaCarregada
    /\ SemTexto

NextPagina ==
    \/ \E idadeOk \in BOOLEAN : SalvarContato(idadeOk)
    \/ \E duplicata \in 0..MaxIdPagina, idadeOk \in BOOLEAN : VerificarResponde(duplicata, idadeOk)
    \/ \E ok \in BOOLEAN : SalvarResponde(ok)
    \/ \E id \in 1..MaxIdPagina : EditarContato(id)
    \/ \E ok \in BOOLEAN : EditarResponde(ok)
    \/ NovoOuCancela
    \/ EditarExistente
    \/ fecharModalDuplicata

SpecPagina == InitPagina /\ [][NextPagina]_vars

(***************************************************************************)
(* SpecCriar: the page saves new contacts through the server, which        *)
(* another client sends creates to as well.  The store may fail.           *)
(***************************************************************************)
RECURSIVE Unicos(_, _)
\* listaTelefonesUnicos, src/public/app.js:239-246: the first entry of each
\* normalized number; vistos are the keys of uniqueMap
Unicos(lista, vistos) ==
    IF lista = <<>> THEN <<>>
    ELSE LET norm == normalizarTelefone(Head(lista))
         IN  IF norm = <<>> \/ norm \in vistos THEN Unicos(Tail(lista), vistos)
             ELSE <<Head(lista)>> \o Unicos(Tail(lista), vistos \cup {norm})

\* the phone lists typed into the form: the number of Ana without
\* formatting, a second number twice, and a number that is too short
ListasCriar == { <<TelDigitos>>, <<TelFixo, TelFixo>>, <<TelCurto>> }

\* the creates of the other client
BodiesOutro == { Body(Str(Ana), Nulo, Arr(<<Str(TelFixo)>>)) }

\* salvarContato in creation mode up to its first await, src/public/app.js:221-264,
\* with name Bob and age 41: the phones are made unique and checked, and the
\* duplicate check is called
SalvarNovo(lista) ==
    /\ salvando.pc = "-"
    /\ ~Truthy(contatoEditandoId)
    /\ LET unicos == Unicos(lista, {})
       IN  /\ \A i \in 1..Len(unicos) :
                  ~(Len(normalizarTelefone(unicos[i])) < 10 \/ Len(normalizarTelefone(unicos[i])) > 11)
           /\ formulario' = Body(Str(Bob), Num(41), Arr([i \in 1..Len(unicos) |-> Str(unicos[i])]))
    /\ salvando' = [pc |-> "verificar", verificou |-> TRUE, metodo |-> "-", id |-> 0]
    /\ UNCHANGED <<contato, telefone, seqContato, log, logPend, pedidos, faults, resp, restam>>
    /\ UNCHANGED <<contatoEditandoId, contatoIdHidden, editando, modalDuplicata>>
    /\ UNCHANGED <<texto, normalizado, consultas, emitidas, mostrado, currentSearchController>>

\* the server handles the duplicate check of the save and salvarContato
\* resumes with the answer, src/public/app.js:265-312: with a duplicate it
\* shows the modal and returns, else (also when the check failed) it goes on
\* to send the request
VerificarDoSalvar ==
    /\ salvando.pc = "verificar"
    /\ VerificarServidor(formulario.telefones)
    /\ IF resp'.status = 200 /\ Len(resp'.corpo) > 0
       THEN /\ modalDuplicata' = resp'.corpo[1].ID
            /\ salvando' = SalvarParado
       ELSE /\ salvando' = Envio(TRUE)
            /\ UNCHANGED modalDuplicata
    /\ UNCHANGED <<restam, contatoEditandoId, contatoIdHidden, editando>>
    /\ UNCHANGED <<texto, normalizado, navegador>>

\* the server handles the POST of the save, src/public/app.js:309 and 1089;
\* salvarContato awaits the answer
PostDoSalvar ==
    /\ salvando.pc = "enviar"
    /\ salvando.metodo = "POST"
    /\ PostServidor(formulario, MaxIdCriar)
    /\ salvando' = IF resp'.kind = "POST" THEN SalvarParado
                   ELSE [salvando EXCEPT !.pc = "aguardar", !.id = seqContato']
    /\ UNCHANGED <<restam, contatoEditandoId, contatoIdHidden, editando, modalDuplicata>>
    /\ UNCHANGED <<texto, normalizado, navegador>>

\* the POST of the save is in flight and has not been answered
SalvarEmVoo ==
    \E r \in Slots : /\ pedidos[r].kind = "POST"
                     /\ pedidos[r].id = salvando.id
                     /\ ~pedidos[r].respondeu

\* the answer (201 or 500) to the POST of the save has arrived,
\* src/public/app.js:315-333; limparFormulario resets the edit state, which
\* is the creation mode already
SalvarTermina ==
    /\ salvando.pc = "aguardar"
    /\ ~SalvarEmVoo
    /\ salvando' = SalvarParado
    /\ UNCHANGED <<contato, telefone, seqContato, log, logPend, pedidos, faults, resp, restam>>
    /\ UNCHANGED <<contatoEditandoId, contatoIdHidden, editando, modalDuplicata>>
    /\ UNCHANGED <<texto, normalizado, navegador>>

InitCriar ==
    /\ Inicio({BancoAna}, MaxInFlight, MaxFaults, MaxPedidosCriar)
    /\ PaginaCarregada
    /\ SemTexto

NextCriar ==
    \/ \E lista \in ListasCriar : SalvarNovo(lista)
    \/ VerificarDoSalvar
    \/ PostDoSalvar
    \/ SalvarTermina
    \/ fecharModalDuplicata
    \/ \E b \in BodiesOutro : Post(b, MaxIdCriar)
    \/ \E r \in 1..MaxInFlight, i \in 1..MaxPend : InsereTelefone(r, i)

SpecCriar == InitCriar /\ [][NextCriar]_vars

(***************************************************************************)
(* SpecLista: the fetches of the list and of searches the page issues, and *)
(* the rendering of their answers, which arrive in any order.              *)
(***************************************************************************)
\* a step of the list of the page leaves the server, the form and the text alone
SoLista ==
    UNCHANGED <<contato, telefone, seqContato, log, logPend, pedidos, faults, resp, restam,
                pagina, texto, normalizado, formulario>>

\* currentSearchController.abort(): the fetch of that search, if in flight,
\* will reject with AbortError
Abortar(cs) ==
    {IF q.n = currentSearchController /\ q.tipo = "pesquisa"
     THEN [q EXCEPT !.abortada = TRUE] ELSE q : q \in cs}

\* carregarContatos up to its await, src/public/app.js:149-151, as called
\* after a save or a delete and by pesquisarContatos for an empty term
CarregarContatos ==
    /\ emitidas < MaxConsultas
    /\ emitidas' = emitidas + 1
    /\ consultas' = consultas \cup {Consulta(emitidas + 1, "lista")}
    /\ UNCHANGED <<mostrado, currentSearchController>>
    /\ SoLista

\* pesquisarContatos with a term up to its await, src/public/app.js:164-179
PesquisarContatos ==
    /\ emitidas < MaxConsultas
    /\ emitidas' = emitidas + 1
    /\ consultas' = Abortar(consultas) \cup {Consulta(emitidas + 1, "pesquisa")}
    /\ currentSearchController' = emitidas + 1
    /\ UNCHANGED mostrado
    /\ SoLista

\* the timer of triggerSearch for an emptied field, src/public/app.js:691-696
LimparPesquisa ==
    /\ emitidas < MaxConsultas
    /\ emitidas' = emitidas + 1
    /\ consultas' = Abortar(consultas) \cup {Consulta(emitidas + 1, "lista")}
    /\ UNCHANGED <<mostrado, currentSearchController>>
    /\ SoLista

\* the answer to a fetch of the list arrives, src/public/app.js:151-157:
\* rendered when it is the array of a 200
RespostaLista(n, ok) ==
    /\ Consulta(n, "lista") \in consultas
    /\ consultas' = consultas \ {Consulta(n, "lista")}
    /\ mostrado' = IF ok THEN n ELSE mostrado
    /\ UNCHANGED <<emitidas, currentSearchController>>
    /\ SoLista

\* the status of the answer to GET /api/contatos/pesquisar?termo=...
StatusPesquisa(falha) ==
    IF falha THEN 500 ELSE IF RotaDe("pesquisar") = ":id" THEN 404 ELSE 200

\* the answer to a fetch of a search arrives, src/public/app.js:184-195:
\* rendered when resposta.ok
RespostaPesquisa(n, falha) ==
    /\ Consulta(n, "pesquisa") \in consultas
    /\ consultas' = consultas \ {Consulta(n, "pesquisa")}
    /\ mostrado' = IF StatusPesquisa(falha) = 200 THEN n ELSE mostrado
    /\ UNCHANGED <<emitidas, currentSearchController>>
    /\ SoLista

\* the fetch of an aborted search rejects with AbortError, src/public/app.js:196-198
Abortada(n) ==
    /\ [Consulta(n, "pesquisa") EXCEPT !.abortada = TRUE] \in consultas
    /\ consultas' = consultas \ {[Consulta(n, "pesquisa") EXCEPT !.abortada = TRUE]}
    /\ UNCHANGED <<emitidas, mostrado, currentSearchController>>
    /\ SoLista

InitLista ==
    /\ Inicio({BancoVazio}, 1, 0, 0)
    /\ FormularioParado
    /\ ListaCarregando
    /\ SemTexto

NextLista ==
    \/ CarregarContatos
    \/ PesquisarContatos
    \/ LimparPesquisa
    \/ \E n \in 1..MaxConsultas, ok \in BOOLEAN : RespostaLista(n, ok)
    \/ \E n \in 1..MaxConsultas, falha \in BOOLEAN : RespostaPesquisa(n, falha)
    \/ \E n \in 1..MaxConsultas : Abortada(n)

SpecLista == InitLista /\ [][NextLista]_vars

(***************************************************************************)
(* SpecDois: create, update and delete requests interleaved statement by   *)
(* statement on a store that holds two contacts, with failures of the      *)
(* store; two requests may be in flight at once.                           *)
(***************************************************************************)
BodiesDois ==
    { Body(Str(Ana), Num(30), Arr(<<Str(TelFormatado)>>)),
      Body(Str(Bob), Nulo, Arr(<<Str(TelPontos), Str(TelFixo)>>)) }

InitDois ==
    /\ Inicio({BancoAnaBob}, 2, MaxFaults, MaxPedidosDois)
    /\ PaginaCarregada
    /\ SemTexto

NextDois ==
    \/ \E b \in BodiesDois : Post(b, MaxIdDois)
    \/ \E param \in IdParams(MaxIdDois), b \in BodiesDois : Put(param, b)
    \/ \E param \in IdParams(MaxIdDois) : Delete(param)
    \/ \E r \in 1..2, i \in 1..MaxPend : InsereTelefone(r, i)
    \/ \E r \in 1..2 : ApagaTelefones(r)
    \/ \E r \in 1..2 : ApagaContato(r)

SpecDois == InitDois /\ [][NextDois]_vars


(***************************************************************************)
(* Properties of the concurrent specification Spec.                        *)
(***************************************************************************)
\* contact id was created and its row is gone
Removido(id) == id \in 1..seqContato /\ id \notin DOMAIN contato

NenhumEmVoo == \A r \in Slots : pedidos[r] = Idle

\* the ID values of the objects of a response body
IdsDe(corpo) == {corpo[i].ID : i \in 1..Len(corpo)}

\* C1: every Telefone row's IDCONTATO is the ID of a Contato row that exists,
\* in every state reached by interleaved create, update and delete requests
C1_IntegridadeReferencial ==
    \A i \in 1..Len(telefone) : telefone[i].IDCONTATO \in DOMAIN contato

\* an insert of a POST or PUT was refused by the foreign key (no failure was
\* injected), because the contact was deleted while the request was in flight
C1_Witness ==
    /\ resp.kind \in {"POST", "PUT"}
    /\ resp.status = 500
    /\ faults = MaxFaults

\* no row of contact id is left and no read endpoint returns the contact
Invisivel(id) ==
    /\ \A i \in 1..Len(telefone) : telefone[i].IDCONTATO # id
    /\ \A ordem \in Ordens(contato, DOMAIN contato) :
           id \notin IdsDe(ListaContatos(contato, telefone, ordem))
    /\ AfinidadeInteira(IdParam(id)) \notin DOMAIN contato
    /\ \A termo \in Termos : id \notin IdsPesquisa(contato, telefone, termo)
    /\ \A cands \in Candidatos : id \notin IdsDe(Duplicatas(contato, telefone, cands))

\* C2: once a DELETE of a contact answered 200, in every later state no
\* Telefone row of that contact remains and list, get-by-id, search and
\* duplicate check return none of its phones
C2_ExcluidoSemTelefones ==
    /\ [](\A id \in 1..MaxId : Removido(id) => Invisivel(id))
    /\ [][ /\ (resp'.kind = "DELETE" /\ resp'.status = 200)
                 => /\ AfinidadeInteira(resp'.param) \in 1..seqContato'
                    /\ AfinidadeInteira(resp'.param) \notin DOMAIN contato'
           /\ \A id \in 1..MaxId : Removido(id) => Removido(id)' ]_vars

\* a DELETE answered 200 for a contact that owned phones, and another request
\* for the same contact is still in flight
C2_Witness ==
    /\ resp.kind = "DELETE"
    /\ resp.status = 200
    /\ resp.changes = 1
    /\ \E r \in Slots : pedidos[r].kind = "PUT" /\ pedidos[r].id = AfinidadeInteira(resp.param)

\* the number of lines of the audit log about contact id
LinhasDe(id) == Cardinality({i \in 1..Len(log) : log[i].ID = IdParam(id)})

\* C3 (as claimed): when no request and no append is in flight, the audit log
\* holds exactly one line for every removed contact and none for the others
C3_UmaLinhaPorExclusao ==
    (NenhumEmVoo /\ logPend = <<>>) =>
        \A id \in 1..MaxId : LinhasDe(id) = IF Removido(id) THEN 1 ELSE 0

\* C4 (as claimed): the line a DELETE handler wrote carries the name and the
\* phone list the contact has in the state right before its row is removed
C4_LinhaDoEstadoAnterior ==
    [][ \A r \in Slots :
          ( /\ pedidos[r].pc = "delContato"
            /\ pedidos'[r] = Idle
            /\ pedidos[r].id \in DOMAIN contato
            /\ pedidos[r].id \notin DOMAIN contato' )
          => /\ pedidos[r].linha.NOME = contato[pedidos[r].id].NOME
             /\ pedidos[r].linha.TELEFONES =
                    Objeto(contato, pedidos[r].id, NumerosDe(telefone, pedidos[r].id)).TELEFONES
      ]_vars

\* C8 (as claimed): GET, PUT with a valid body and DELETE on an id without a
\* contact answer 404 and change neither store nor audit log, and PUT or
\* DELETE answer 200 only if they modified or removed an existing contact
C8_NaoEncontrado ==
    /\ []( (resp.kind \in {"PUT", "DELETE"} /\ resp.status = 200) => resp.changes = 1 )
    /\ [][ /\ (resp'.kind \in {"GET", "PUT", "DELETE"} /\ resp'.status = 404)
               => ( /\ AfinidadeInteira(resp'.param) \notin DOMAIN contato
                    /\ UNCHANGED <<contato, telefone, seqContato, log, logPend>> )
           /\ ( /\ resp'.kind \in {"GET", "PUT", "DELETE"}
                /\ resp'.status \in {200, 404}
                /\ pedidos' = pedidos
                /\ AfinidadeInteira(resp'.param) \notin DOMAIN contato )
               => resp'.status = 404 ]_vars


(***************************************************************************)
(* Properties of the validation (SpecVal).                                 *)
(***************************************************************************)
\* the phone has 10 or 11 digits once every other character is removed
Aceitavel(v) == v.t = "string" /\ Cardinality({i \in 1..Len(v.s) : v.s[i] \in Digitos}) \in {10, 11}

TemInaceitavel(telefones) ==
    telefones.t = "array" /\ \E i \in 1..Len(telefones.a) : ~Aceitavel(telefones.a[i])

\* missing, not an array, empty, or without a phone of 10 or 11 digits
ListaRuim(telefones) ==
    telefones.t # "array" \/ \A i \in 1..Len(telefones.a) : ~Aceitavel(telefones.a[i])

\* missing, blank or longer than 100 characters
NomeRuim(nome) ==
    \/ nome.t # "string"
    \/ \A i \in 1..Len(nome.s) : nome.s[i] \in Brancos
    \/ Len(nome.s) > 100

\* given, and not parsed to an integer in 1..150
IdadeRuim(idade) ==
    /\ idade.t \in {"string", "number"}
    /\ idade # Str(<<>>)
    /\ parseInt(idade).nan \/ parseInt(idade).n < 1 \/ parseInt(idade).n > 150

EmVoo == {r \in Slots : pedidos[r].kind \in {"POST", "PUT"}}

\* the values a phone list lets the handler insert
Inseriveis(telefones) ==
    {sanitizar(telefones.a[i]).s : i \in {j \in 1..Len(telefones.a) : Aceitavel(telefones.a[j])}}

\* C5 (as claimed): a POST or PUT whose phone list contains a phone with a
\* digit count other than 10 or 11 is answered 400 and persists nothing
C5_InaceitavelRejeitaPedido ==
    /\ (resp.kind \in {"POST", "PUT"} /\ TemInaceitavel(resp.body.telefones)) => resp.status = 400
    /\ \A r \in EmVoo : ~TemInaceitavel(pedidos[r].body.telefones)

\* C5 (amended): a phone with a digit count other than 10 or 11 is never
\* inserted: POST and PUT insert only sanitized phones of the request that
\* have 10 or 11 digits, and they answer 400, with an error message, for the
\* phone list only when it holds no such phone
C5_InaceitavelNuncaInserido ==
    /\ \A r \in EmVoo :
          \A i \in 1..Len(pedidos[r].pend) :
              pedidos[r].pend[i] \in Inseriveis(pedidos[r].body.telefones)
    /\ \A i \in 1..Len(telefone) :
          \E b \in Bodies \cup {Body(Str(Ana), Num(30), Arr(<<Str(TelFormatado)>>))} :
              telefone[i].NUMERO \in Inseriveis(b.telefones)
    /\ (resp.kind \in {"POST", "PUT"} /\ resp.status = 400)
          => /\ resp.erro # ""
             /\ \/ NomeRuim(resp.body.nome)
                \/ IdadeRuim(resp.body.idade)
                \/ ListaRuim(resp.body.telefones)
    /\ (resp.kind \in {"POST", "PUT"} /\ ListaRuim(resp.body.telefones)) => resp.status = 400

\* a PUT of a list with one short and one good phone answered 200 and the
\* contact owns exactly the good phone
C5_Witness ==
    /\ resp.kind = "PUT"
    /\ resp.status = 200
    /\ TemInaceitavel(resp.body.telefones)
    /\ NumerosDe(telefone, AfinidadeInteira(resp.param)) = <<TelFixo>>

SoDigitos(s) == Filtrar(s, Digitos)

\* C9 (as claimed): the duplicate check returns exactly the contacts that own
\* a phone whose digits equal the digits of some candidate
C9_DuplicatasExatas ==
    (resp.kind = "VERIFICAR" /\ resp.status = 200) =>
        IdsDe(resp.corpo) =
            { id \in DOMAIN contato :
                \E i \in 1..Len(telefone), k \in 1..Len(resp.body.telefones.a) :
                    /\ telefone[i].IDCONTATO = id
                    /\ resp.body.telefones.a[k].t = "string"
                    /\ SoDigitos(telefone[i].NUMERO) = SoDigitos(resp.body.telefones.a[k].s) }

\* C10 (as claimed): for every stored phone the store-side normalization
\* gives the digit string the query-side normalization gives
C10_NormalizacaoSimetrica ==
    \A i \in 1..Len(telefone) :
        SQL_NUMERO_NORMALIZADO(telefone[i].NUMERO) = normalizarNumero(Str(telefone[i].NUMERO))

(***************************************************************************)
(* Properties of the search requests (SpecSeq).                            *)
(***************************************************************************)
\* the last step answered a request GET /api/contatos/pesquisar
EhPesquisa ==
    \/ resp.kind = "PESQUISAR"
    \/ resp.kind = "GET" /\ resp.param = SegPesquisar

\* t occurs in s as a run of consecutive characters
Contem(s, t) == \E k \in 0..(Len(s) - Len(t)) : SubSeq(s, k + 1, k + Len(t)) = t

SemCaixa(s) == [i \in 1..Len(s) |-> Minuscula(s[i])]

Branco(s) == \A i \in 1..Len(s) : s[i] \in Brancos

\* C11 (as claimed): a search whose term is a non-empty run of the digits of
\* a stored phone is answered 200 with an array that holds the owner of the
\* phone, whatever the format the phone was stored in
C11_PesquisaPorDigitos ==
    (EhPesquisa /\ resp.termo # <<>>) =>
        \A i \in 1..Len(telefone) :
            Contem(SoDigitos(telefone[i].NUMERO), resp.termo)
                => /\ resp.status = 200
                   /\ telefone[i].IDCONTATO \in IdsDe(resp.corpo)

\* C12 (as claimed): a search whose term is absent, empty or only white
\* space is answered 200 with the empty array
C12_TermoEmBranco ==
    (EhPesquisa /\ Branco(resp.termo)) => (resp.status = 200 /\ resp.corpo = <<>>)

\* the contacts whose name contains the term, letters compared without case,
\* or that own a phone whose digits contain the digits of the term
Casam(termo) ==
    { id \in DOMAIN contato :
        \/ Contem(SemCaixa(contato[id].NOME), SemCaixa(termo))
        \/ \E i \in 1..Len(telefone) :
               /\ telefone[i].IDCONTATO = id
               /\ Contem(SoDigitos(telefone[i].NUMERO), SoDigitos(termo)) }

\* C13 (as claimed): a search with a term that is not blank is answered 200
\* with exactly the contacts that match, each once, in the order of the names
C13_PesquisaExata ==
    (EhPesquisa /\ ~Branco(resp.termo)) =>
        /\ resp.status = 200
        /\ IdsDe(resp.corpo) = Casam(resp.termo)
        /\ \A i, j \in 1..Len(resp.corpo) :
               i < j => /\ resp.corpo[i].ID # resp.corpo[j].ID
                        /\ MenorOuIgual(resp.corpo[i].NOME, resp.corpo[j].NOME)

(***************************************************************************)
(* Properties of update and create followed by a read (SpecSeq).           *)
(***************************************************************************)
\* the age a request asks for: a number, a string of digits, or none
IdadePedida(idade) ==
    CASE idade.t = "number" -> IdadeDe(idade.n)
      [] idade.t = "string" /\ idade.s # <<>> /\ SoDigitos(idade.s) = idade.s
            -> IdadeDe(ValorDecimal(idade.s))
      [] OTHER -> IdadeNula

\* s without the white space around it
SemBrancosEmVolta(s) ==
    LET dentro == {i \in 1..Len(s) : s[i] \notin Brancos}
    IN  IF dentro = {} THEN <<>>
        ELSE SubSeq(s, CHOOSE i \in dentro : \A j \in dentro : i <= j,
                       CHOOSE i \in dentro : \A j \in dentro : j <= i)

\* the phones of a request that have 10 or 11 digits
Validos(telefones) == SelectSeq(telefones.a, Aceitavel)

\* C14 (as claimed): when a PUT answers 200 and no other request was in
\* flight, the contact has the name and the age of the request and owns
\* exactly the valid phones of the request
C14_SubstituicaoTotal ==
    (resp.kind = "PUT" /\ resp.status = 200) =>
        LET id == AfinidadeInteira(resp.param)
        IN  /\ id \in DOMAIN contato
            /\ contato[id].NOME = SemBrancosEmVolta(resp.body.nome.s)
            /\ contato[id].IDADE = IdadePedida(resp.body.idade)
            /\ {telefone[i].NUMERO : i \in {j \in 1..Len(telefone) : telefone[j].IDCONTATO = id}}
                   = {SemBrancosEmVolta(Validos(resp.body.telefones)[i].s) :
                          i \in 1..Len(Validos(resp.body.telefones))}

\* the number of entries of list whose digits are d
Vezes(lista, d) == Cardinality({i \in 1..Len(lista) : SoDigitos(lista[i]) = d})

\* the two lists of phone strings have the same entries, each as often,
\* when phones are compared by their digits
MesmosTelefones(l1, l2) ==
    /\ Len(l1) = Len(l2)
    /\ \A i \in 1..Len(l1) : Vezes(l1, SoDigitos(l1[i])) = Vezes(l2, SoDigitos(l1[i]))

\* C15 (as claimed): an accepted POST answers 201 with the id of the new
\* contact, and the GET of that id that follows answers 200 with the name and
\* age of the request and, compared by digits, its list of valid phones
C15_IdaEVolta ==
    /\ []( (resp.kind = "POST" /\ resp.status = 201) => resp.lastID \in DOMAIN contato )
    /\ [][ ( /\ resp.kind = "POST"
              /\ resp.status = 201
              /\ resp'.kind = "GET"
              /\ AfinidadeInteira(resp'.param) = resp.lastID )
            => /\ resp'.status = 200
               /\ resp'.corpo[1].NOME = SemBrancosEmVolta(resp.body.nome.s)
               /\ resp'.corpo[1].IDADE = IdadePedida(resp.body.idade)
               /\ MesmosTelefones(resp'.corpo[1].TELEFONES,
                                   [i \in 1..Len(Validos(resp.body.telefones)) |->
                                       Validos(resp.body.telefones)[i].s]) ]_vars

(***************************************************************************)
(* Properties of the normalization functions (SpecNorm).                   *)
(***************************************************************************)
\* C16: normalizarNumero and normalizarTelefone are idempotent: applied to
\* its own result, each gives that result again, for every string
C16_NormalizacaoIdempotente ==
    \A i \in 2..Len(normalizado) : normalizado[i].s = normalizado[i - 1].s

\* a string with formatting between its digits was normalized twice
C16_Witness ==
    /\ Len(normalizado) = 2
    /\ texto = <<"1", "-", "2">>
    /\ normalizado[2] = [f |-> "normalizarNumero", s |-> <<"1", "2">>]

(***************************************************************************)
(* Properties of duplicates across contacts (SpecSeq).                     *)
(***************************************************************************)
\* the contacts other than id that own a phone with the digits of one of
\* the phones of the list
DonosDe(telefones, id) ==
    { c \in DOMAIN contato \ {id} :
        \E i \in 1..Len(telefone), k \in 1..Len(telefones.a) :
            /\ telefone[i].IDCONTATO = c
            /\ telefones.a[k].t = "string"
            /\ SoDigitos(telefones.a[k].s) # <<>>
            /\ SoDigitos(telefone[i].NUMERO) = SoDigitos(telefones.a[k].s) }

\* C17: POST and PUT never refuse a request because a phone of it is owned
\* by another contact: a request with an acceptable body is answered 201 or
\* 200, or 404 by PUT when the id has no contact, whoever owns its phones
C17_DuplicataNaoRejeita ==
    (resp.kind \in {"POST", "PUT"}
        /\ ~NomeRuim(resp.body.nome) /\ ~IdadeRuim(resp.body.idade)
        /\ ~ListaRuim(resp.body.telefones))
    => \/ resp.kind = "POST" /\ resp.status = 201
       \/ resp.kind = "PUT" /\ resp.status = 200
       \/ /\ resp.kind = "PUT"
          /\ resp.status = 404
          /\ AfinidadeInteira(resp.param) \notin DOMAIN contato

\* a POST was answered 201 and the new contact owns a phone with the digits
\* of a phone of another contact
C17_Witness ==
    /\ resp.kind = "POST"
    /\ resp.status = 201
    /\ DonosDe(resp.body.telefones, resp.lastID) # {}

(***************************************************************************)
(* Properties of the identifiers (SpecIds).                                *)
(***************************************************************************)
\* the slots of the creates in flight
Criando == {r \in Slots : pedidos[r].kind = "POST"}

\* C18: every id a create is given is larger than every id given before
\* (seqContato is the largest of them, and no stored or pending id exceeds
\* it), so it differs from the ids of all earlier creates, deleted or not;
\* two creates in flight hold different ids, and a 201 carries the id the
\* create was given
C18_IdsUnicos ==
    /\ []( /\ \A id \in DOMAIN contato : id \in 1..seqContato
           /\ \A r \in Criando : pedidos[r].id \in 1..seqContato
           /\ \A r, q \in Criando : r # q => pedidos[r].id # pedidos[q].id )
    /\ [][ /\ seqContato' >= seqContato
           /\ \A r \in Slots :
                  (pedidos[r] = Idle /\ pedidos'[r].kind = "POST")
                      => /\ pedidos'[r].id > seqContato
                         /\ pedidos'[r].id = seqContato'
                         /\ pedidos'[r].id \in DOMAIN contato'
           /\ (resp'.kind = "POST" /\ resp'.status = 201)
                  => \E r \in Criando : /\ pedidos[r].id = resp'.lastID
                                         /\ pedidos'[r] = Idle ]_vars

\* a create was answered 201 with an id larger than the id of a contact
\* that was deleted before
C18_Witness ==
    /\ resp.kind = "POST"
    /\ resp.status = 201
    /\ \E id \in 1..MaxIdIds : id < resp.lastID /\ Removido(id)

(***************************************************************************)
(* Properties of concurrent updates (SpecSemFalhas).                       *)
(***************************************************************************)
\* contact id has the name and the age of body b and owns exactly the valid
\* phones of b
Coerente(id, b) ==
    /\ id \in DOMAIN contato
    /\ contato[id].NOME = SemBrancosEmVolta(b.nome.s)
    /\ contato[id].IDADE = IdadePedida(b.idade)
    /\ {telefone[i].NUMERO : i \in {j \in 1..Len(telefone) : telefone[j].IDCONTATO = id}}
           = {SemBrancosEmVolta(Validos(b.telefones)[i].s) : i \in 1..Len(Validos(b.telefones))}

\* C19 (as claimed): when the last of two PUT requests for one contact that
\* were in flight together answers 200 (neither fails in a run without
\* failures and deletes), the name, the age and the phone set of the contact
\* are together those of one request
C19_UltimaEscritaVence ==
    [][ \A r \in Slots, id \in 1..MaxId :
          ( /\ pedidos[r].kind = "PUT"
            /\ pedidos[r].id = id
            /\ pedidos[r].junto
            /\ resp'.kind = "PUT"
            /\ resp'.status = 200
            /\ \A q \in Slots : pedidos'[q] = Idle )
          => \E b \in BodiesConc : Coerente(id, b)' ]_vars

(***************************************************************************)
(* Properties of the save flow of the page (SpecPagina).                   *)
(***************************************************************************)
\* C20 (as claimed): the request salvarContato sends is a POST if and only
\* if this call of salvarContato called the duplicate check before
C20_VerificaSoAoCriar ==
    salvando.pc = "enviar" => (salvando.metodo = "POST" <=> salvando.verificou)

(***************************************************************************)
(* Properties of the creates of the page (SpecCriar).                      *)
(***************************************************************************)
\* C21 (as claimed): a save in creation mode whose duplicate check reports a
\* duplicate sends no POST, and no insert of a create of the page stores a
\* phone whose digits are those of a phone another contact owns
C21_CriarSemDuplicata ==
    [][ /\ ( /\ salvando.pc = "verificar"
              /\ salvando' # salvando
              /\ resp'.kind = "VERIFICAR"
              /\ Len(resp'.corpo) > 0 ) => salvando' = SalvarParado
        /\ \A r \in Slots :
              ( /\ salvando.pc = "aguardar"
                /\ pedidos[r].kind = "POST"
                /\ pedidos[r].id = salvando.id
                /\ pedidos'[r] # pedidos[r]
                /\ Len(telefone') > Len(telefone) )
              => ~\E i \in 1..Len(telefone) :
                     /\ telefone[i].IDCONTATO # pedidos[r].id
                     /\ SoDigitos(telefone[i].NUMERO)
                            = SoDigitos(telefone'[Len(telefone')].NUMERO) ]_vars

(***************************************************************************)
(* Properties of the steps of one write request (Spec).                    *)
(***************************************************************************)
\* the row of Contato a POST or PUT with body b writes
LinhaDe(b) == [NOME |-> sanitizar(b.nome).s, IDADE |-> idadeNum(b.idade)]

\* C22: no phone insert of a create or update precedes the contact write of
\* that request: the step that starts a POST inserts the Contato row, the
\* step that starts a PUT updates the one existing row, neither inserts a
\* phone; the inserts are issued after it (after the DELETE of the old
\* phones for PUT); and every Telefone row stored is the insert of such a
\* request, for the contact it wrote
C22_TelefoneDepoisDoContato ==
    [][ /\ \A r \in Slots :
              (pedidos[r] = Idle /\ pedidos'[r].kind = "POST")
                  => /\ pedidos'[r].id \notin DOMAIN contato
                     /\ pedidos'[r].id \in DOMAIN contato'
                     /\ contato'[pedidos'[r].id] = LinhaDe(pedidos'[r].body)
                     /\ pedidos'[r].pc = "insTel"
                     /\ telefone' = telefone
        /\ \A r \in Slots :
              (pedidos[r] = Idle /\ pedidos'[r].kind = "PUT")
                  => /\ pedidos'[r].id \in DOMAIN contato
                     /\ contato'[pedidos'[r].id] = LinhaDe(pedidos'[r].body)
                     /\ pedidos'[r].pc = "delTel"
                     /\ telefone' = telefone
        /\ \A r \in Slots :
              (pedidos[r].pc # "insTel" /\ pedidos'[r].pc = "insTel")
                  => \/ pedidos[r] = Idle /\ pedidos'[r].kind = "POST"
                     \/ pedidos[r].kind = "PUT" /\ pedidos[r].pc = "delTel"
        /\ Len(telefone') > Len(telefone)
              => \E r \in Slots :
                     /\ pedidos[r].kind \in {"POST", "PUT"}
                     /\ pedidos[r].pc = "insTel"
                     /\ pedidos[r].id \in DOMAIN contato
                     /\ \E i \in 1..Len(pedidos[r].pend) :
                            /\ telefone' = Append(telefone, [IDCONTATO |-> pedidos[r].id,
                                                             NUMERO |-> pedidos[r].pend[i]])
                            /\ pedidos'[r] \in {Idle, [pedidos[r] EXCEPT !.pend = Sem(pedidos[r].pend, i)]}
      ]_vars

\* an update with two phones has stored the first of them, after its UPDATE
\* and its DELETE of the old phones, and the second insert is still to run
C22_Witness ==
    \E r \in Slots :
        /\ pedidos[r].kind = "PUT"
        /\ pedidos[r].pc = "insTel"
        /\ Len(pedidos[r].pend) = 1
        /\ contato[pedidos[r].id] = LinhaDe(pedidos[r].body)
        /\ \E i \in 1..Len(telefone) :
               /\ telefone[i].IDCONTATO = pedidos[r].id
               /\ telefone[i].NUMERO \in {TelPontos, TelFixo}
               /\ telefone[i].NUMERO # pedidos[r].pend[1]

\* request r is answered 500 by this step
Falhou(r) ==
    /\ pedidos[r].kind \in {"POST", "PUT"}
    /\ ~pedidos[r].respondeu
    /\ pedidos'[r] # pedidos[r]
    /\ resp'.kind = pedidos[r].kind
    /\ resp'.status = 500

\* C23 (as claimed): when a POST is answered 500 its contact has no Contato
\* row and no Telefone row, when a PUT that no other PUT ran together with
\* is answered 500 the contact (if it still exists) has the name, the age
\* and the phones it had when the PUT was received, and a POST or PUT
\* refused at its first statement has changed nothing
C23_FalhaNadaPersiste ==
    [][ /\ \A r \in Slots :
              (Falhou(r) /\ pedidos[r].kind = "POST")
                  => /\ pedidos[r].id \notin DOMAIN contato'
                     /\ NumerosDe(telefone', pedidos[r].id) = <<>>
        /\ \A r \in Slots :
              (Falhou(r) /\ pedidos[r].kind = "PUT" /\ ~pedidos[r].junto
                         /\ pedidos[r].id \in DOMAIN contato')
                  => Antes(contato', telefone', pedidos[r].id) = pedidos[r].antes
        /\ (resp'.kind \in {"POST", "PUT"} /\ resp'.status = 500 /\ pedidos' = pedidos)
                  => UNCHANGED <<contato, telefone>>
      ]_vars

\* C24 (as claimed): at the step that removes the Contato row of a DELETE
\* request, the audit line of that request is in the audit log already (so a
\* deletion whose line was not appended removes nothing)
C24_LinhaAntesDaRemocao ==
    [][ \A r \in Slots :
          ( /\ pedidos[r].pc = "delContato"
            /\ pedidos[r].id \in DOMAIN contato
            /\ pedidos[r].id \notin DOMAIN contato' )
          => \E i \in 1..Len(log) : log[i] = pedidos[r].linha ]_vars

(***************************************************************************)
(* Properties of the stored phones (SpecSeq).                              *)
(***************************************************************************)
\* C25 (as claimed): every Telefone row holds a number with 10 or 11 digits,
\* whatever phone strings were given to create and update
C25_NumeroGuardadoValido ==
    \A i \in 1..Len(telefone) : Len(SoDigitos(telefone[i].NUMERO)) \in {10, 11}

(***************************************************************************)
(* Properties of the list of the page (SpecLista).                         *)
(***************************************************************************)
\* C26 (as claimed): the answer of an older fetch of the list or of a search
\* never replaces the rendering of the answer of a newer one: every
\* rendering is of a fetch issued after the fetch rendered before
C26_RespostaAntigaNaoSobrescreve ==
    [][ mostrado' # mostrado => mostrado' > mostrado ]_vars

(***************************************************************************)
(* Properties of the search handler (SpecSeq).                             *)
(***************************************************************************)
\* the search terms that are not blank and hold no digit
TermosSemDigito == {termo \in Termos : Trim(termo) # <<>> /\ SoDigitos(termo) = <<>>}

Elems(s) == {s[i] : i \in 1..Len(s)}

\* the object o shows the contact as it was when the update p was received
ComoAntes(o, p) ==
    /\ o.NOME = p.antes.linha.NOME
    /\ o.IDADE = p.antes.linha.IDADE
    /\ Elems(o.TELEFONES) = Elems(p.antes.numeros)

\* the object o shows the contact as the update p leaves it
ComoDepois(o, p) ==
    /\ o.NOME = LinhaDe(p.body).NOME
    /\ o.IDADE = LinhaDe(p.body).IDADE
    /\ Elems(o.TELEFONES) = Elems(Limpos(FiltrarTels(p.body.telefones.a, "put")))

\* C29 (as claimed): a GET of the list or of a contact answered while one
\* PUT for the contact is in progress shows the contact either with the
\* name, age and complete phone set from before the update or with those of
\* the update
C29_LeituraDuranteAtualizacao ==
    (resp.kind \in {"GET", "LISTA"} /\ resp.status = 200) =>
        \A r \in Slots, k \in 1..Len(resp.corpo) :
            ( /\ pedidos[r].kind = "PUT"
              /\ ~pedidos[r].junto
              /\ pedidos[r].id = resp.corpo[k].ID )
            => ComoAntes(resp.corpo[k], pedidos[r]) \/ ComoDepois(resp.corpo[k], pedidos[r])

(***************************************************************************)
(* Properties of requests on a store with several contacts (SpecDois).     *)
(***************************************************************************)
\* the contacts of the requests in flight that take the step (none when the
\* step answers a request at once)
Alvos ==
    {pedidos[r].id : r \in {q \in Slots : pedidos'[q] # pedidos[q] /\ pedidos[q] # Idle}}
      \cup {pedidos'[r].id : r \in {q \in Slots : pedidos'[q] # pedidos[q] /\ pedidos'[q] # Idle}}

\* the row and the phones of contact id are the same before and after the step
SemMudanca(id) ==
    /\ id \in DOMAIN contato <=> id \in DOMAIN contato'
    /\ id \in DOMAIN contato => contato'[id] = contato[id]
    /\ NumerosDe(telefone', id) = NumerosDe(telefone, id)

\* C28: every step of a create, update or delete, whatever its outcome,
\* leaves the name, the age and the phone rows of every contact other than
\* the contact of the request as they were
C28_OutrosIntocados ==
    [][ \A id \in 1..MaxIdDois : id \notin Alvos => SemMudanca(id) ]_vars

\* an update of contact 1 was answered 200 and has changed it, and contact 2
\* has the row and the phone it had at the start
C28_Witness ==
    /\ resp.kind = "PUT"
    /\ resp.status = 200
    /\ AfinidadeInteira(resp.param) = 1
    /\ contato[1] # BancoAnaBob.contato[1]
    /\ 2 \in DOMAIN contato
    /\ contato[2] = BancoAnaBob.contato[2]
    /\ NumerosDe(telefone, 2) = <<TelFixo>>

\* C30: in every state without a request in flight, reached by interleaved
\* creates, updates and deletes with no storage failure so far, every
\* Contato row owns at least one Telefone row
C30_ContatoComTelefone ==
    (NenhumEmVoo /\ faults = MaxFaults) =>
        \A id \in DOMAIN contato : NumerosDe(telefone, id) # <<>>

\* no request is in flight, none has failed, and contact 1 owns the phones
\* of two updates whose statements ran interleaved
C30_Witness ==
    /\ NenhumEmVoo
    /\ faults = MaxFaults
    /\ 1 \in DOMAIN contato
    /\ Elems(NumerosDe(telefone, 1)) = {TelFormatado, TelPontos, TelFixo}

=============================================================================
